---- MODULE Spec2Model ----
(***************************************************************************)
(* Model of the HDB Insights synchronisation and enrichment pipeline:      *)
(* the cron sync handler (src/src/pages/api/cron.ts), the two enrichment   *)
(* handlers (src/src/pages/api/enrich.ts), the OneMap client               *)
(* (src/unnamed/part_003), the db and scoring helpers                      *)
(* (src/unnamed/part_002) and the D1 schema (src/schema.sql).              *)
(*                                                                         *)
(* Months ('YYYY-MM' strings in the source, compared lexicographically)    *)
(* are month indices year*12+month0; the two orders coincide.  One clock   *)
(* step is one month of thirty days.  Prices are integers (parseInt of a   *)
(* decimal numeral), price_per_sqm is kept in hundredths and total_score   *)
(* in tenths, so that every rounding of the source is an integer           *)
(* operation here.                                                         *)
(***************************************************************************)
EXTENDS Integers, Sequences, FiniteSets, TLC

\* SQL NULL / JavaScript null: of a numeric value, and of a text value.
NULL == 0 - 1
NoText == "NULL"

\* The JavaScript number NaN.
NaN == 0 - 2

\* ---------------------------------------------------------------- bounds
\* Sizes of the source scaled down to the size of the modelled feed.
limit == 2               \* page size of the upstream fetch (1000)
maxPages == 3            \* page cap of the fetch loop (50)
batchSize == 2           \* statements per insert chunk (50)
cronBacklogLimit == 3    \* LIMIT of the sync's backlog query (200)
enrichBacklogLimit == 1  \* LIMIT of the chunked enrichment handler (5)
enrichAllLimit == 2      \* LIMIT of the second enrichment handler (50)
MaxEvents == 3           \* clock steps, started invocations and failed calls of a behaviour
MaxHistory == 4          \* points of a price history handed to the scoring engine
MaxPriceTens == 16       \* the unit prices handed to the scoring engine, in tens
StartMonth == 17         \* month index of the clock in the initial state
ClockStep == 1800        \* seconds between two requests of the comparison endpoint
MaxClock == 3600         \* seconds of the day a behaviour of the endpoint spans

\* ------------------------------------------------------ program constants
LookbackMonths == 6      \* sixMonthsAgo.setMonth(getMonth() - 6)
StatsWindowMonths == 6   \* date('now', '-6 months')
StaleSteps == 1          \* date('now', '-30 days'): thirty days, one step
safetyPagesOffset == 200 \* while (offset < 200000), in pages of 1000
emptyStopPages == 5      \* offset > 5000, in pages of 1000
ValidSecret == "manual-sync-trigger"

Secrets == {ValidSecret, "wrong", NoText}

\* ------------------------------------------------------------ upstream feed
\* The records the upstream dataset can hold (HDBRecord), by record id.
Feed ==
  [id \in 1..6 |->
    CASE id = 1 -> [month |-> StartMonth - 6, town |-> "A", flat_type |-> "4R",
                    block |-> "B1", street_name |-> "ST", storey_range |-> "01-03",
                    floor_area_sqm |-> 100, remaining_lease |-> <<<<61, "years">>, <<4, "months">>>>,
                    resale_price |-> 400]
      [] id = 2 -> [month |-> StartMonth - 2, town |-> "A", flat_type |-> "4R",
                    block |-> "B2", street_name |-> "ST", storey_range |-> "04-06",
                    floor_area_sqm |-> 90, remaining_lease |-> <<>>,
                    resale_price |-> 300]
      [] id = 3 -> [month |-> StartMonth - 1, town |-> "A", flat_type |-> "4R",
                    block |-> "B1", street_name |-> "ST", storey_range |-> "01-03",
                    floor_area_sqm |-> 100, remaining_lease |-> <<<<60, "years">>>>,
                    resale_price |-> 100]
      [] id = 4 -> [month |-> StartMonth - 1, town |-> "A", flat_type |-> "4R",
                    block |-> "B2", street_name |-> "ST", storey_range |-> "04-06",
                    floor_area_sqm |-> 90, remaining_lease |-> <<<<95, "years">>>>,
                    resale_price |-> 200]
      [] id = 5 -> [month |-> StartMonth - 1, town |-> "A", flat_type |-> "4R",
                    block |-> "B1", street_name |-> "ST", storey_range |-> "07-09",
                    floor_area_sqm |-> 100, remaining_lease |-> <<<<60, "years">>>>,
                    resale_price |-> 600]
      [] OTHER  -> [month |-> StartMonth + 1, town |-> "A", flat_type |-> "3R",
                    block |-> "B2", street_name |-> "ST", storey_range |-> "04-06",
                    floor_area_sqm |-> 90, remaining_lease |-> <<<<94, "years">>, <<11, "months">>>>,
                    resale_price |-> 500]]

FeedIds == DOMAIN Feed

\* The order of `sort=month desc`: newest month first, ties by record id.
Before(a, b) ==
  \/ Feed[a].month > Feed[b].month
  \/ Feed[a].month = Feed[b].month /\ a < b

RECURSIVE SortDesc(_)
SortDesc(S) ==
  IF S = {} THEN <<>>
  ELSE LET h == CHOOSE x \in S : \A y \in S : x = y \/ Before(x, y)
       IN <<h>> \o SortDesc(S \ {h})

Min(a, b) == IF a < b THEN a ELSE b

\* One page of the datastore_search answer: limit records from offset.
Page(S, offset) ==
  LET all == SortDesc(S)
  IN SubSeq(all, offset + 1, Min(offset + limit, Len(all)))

\* ------------------------------------------------------------------ helpers
\* extractLeaseYears: /(\d+)\s*years?/i on the lease text, given as its
\* <<number, word>> pairs; the number of the first pair whose word is
\* "year(s)", null when the text is empty or has none.
extractLeaseYears(leaseString) ==
  LET hits == {k \in 1..Len(leaseString) : leaseString[k][2] \in {"year", "years"}}
  IN IF leaseString = <<>> \/ hits = {} THEN NULL
     ELSE leaseString[CHOOSE k \in hits : \A j \in hits : k <= j][1]

\* Math.round and SQLite ROUND of num/den for num >= 0, den > 0.
RoundDiv(num, den) == (2 * num + den) \div (2 * den)

\* calculatePricePerSqm, in hundredths: Math.round((price / area) * 100) / 100.
calculatePricePerSqm(price, area) == RoundDiv(price * 100, area)

\* The natural key of the UNIQUE constraint of hdb_transactions.
Key(r) == <<r.month, r.town, r.flat_type, r.block, r.street_name,
            r.storey_range, r.resale_price>>

Keys(rows) == {Key(r) : r \in rows}

\* The row the batch insert binds for one upstream record.
TxnRow(id) ==
  LET rec == Feed[id]
  IN [month |-> rec.month, town |-> rec.town, flat_type |-> rec.flat_type,
      block |-> rec.block, street_name |-> rec.street_name,
      storey_range |-> rec.storey_range, floor_area_sqm |-> rec.floor_area_sqm,
      remaining_lease_years |-> extractLeaseYears(rec.remaining_lease),
      resale_price |-> rec.resale_price,
      price_per_sqm |-> calculatePricePerSqm(rec.resale_price, rec.floor_area_sqm),
      latitude |-> NULL]

\* A plain INSERT into a table without the UNIQUE constraint: the row is
\* stored and counted whether or not its natural key is already there.
InsertAlways(rows, row) == [rows |-> rows \cup {row}, changes |-> 1]

\* INSERT OR IGNORE of one row: meta.changes is 0 on a natural-key conflict.
InsertOrIgnore(rows, row) ==
  IF Key(row) \in Keys(rows)
  THEN [rows |-> rows, changes |-> 0]
  ELSE [rows |-> rows \cup {row}, changes |-> 1]

\* DB.batch of the statements of one chunk, in order; the count of
\* results with meta.changes > 0.
RECURSIVE BatchInsert(_, _)
BatchInsert(rows, ids) ==
  IF ids = <<>> THEN [rows |-> rows, inserted |-> 0]
  ELSE LET one == InsertOrIgnore(rows, TxnRow(Head(ids)))
           rest == BatchInsert(one.rows, Tail(ids))
       IN [rows |-> rest.rows, inserted |-> one.changes + rest.inserted]

\* SELECT MIN(month) in the place of MAX(month).
MinMonth(rows) ==
  IF rows = {} THEN NULL
  ELSE CHOOSE m \in {r.month : r \in rows} : \A r \in rows : r.month >= m

\* SELECT MAX(month) FROM hdb_transactions.
MaxMonth(rows) ==
  IF rows = {} THEN NULL
  ELSE CHOOSE m \in {r.month : r \in rows} : \A r \in rows : r.month <= m

\* sixMonthsAgo.toISOString().substring(0, 7)
SixMonthsAgo(n) == n - LookbackMonths

\* The filterDate of one sync invocation.
FilterDate(lastDbMonth, n) ==
  IF lastDbMonth # NULL /\ lastDbMonth > SixMonthsAgo(n)
  THEN lastDbMonth
  ELSE SixMonthsAgo(n)

\* An access check that accepts any secret that is present.
AuthorizedAnySecret(isCron, secret) == isCron \/ secret # NoText

\* The access check shared by the sync trigger and the chunked enrichment.
Authorized(isCron, secret) == ~(~isCron /\ secret # ValidSecret)

\* --------------------------------------------------------------- statistics
\* WHERE month >= date('now', '-6 months'): a 'YYYY-MM' month is compared as
\* text with a 'YYYY-MM-DD' date, so the month of that date itself sorts
\* before the date and only later months qualify.
InStatsWindow(month, n) == month > n - StatsWindowMonths

RECURSIVE SumOf(_, _)
SumOf(rows, col) ==
  IF rows = {} THEN 0
  ELSE LET r == CHOOSE x \in rows : TRUE
       IN r[col] + SumOf(rows \ {r}, col)

MinOf(rows, col) == CHOOSE v \in {r[col] : r \in rows} : \A r \in rows : v <= r[col]
MaxOf(rows, col) == CHOOSE v \in {r[col] : r \in rows} : \A r \in rows : v >= r[col]

GroupOf(r) == <<r.town, r.flat_type, r.month>>

\* ROUND(AVG(resale_price)) as median_price
MedianPriceColumn(g) == RoundDiv(SumOf(g, "resale_price"), Cardinality(g))

\* One row of the SELECT ... GROUP BY town, flat_type, month.  The column
\* price_change_pct is not in the INSERT's column list and takes its
\* default, NULL.
StatRow(g) ==
  LET r == CHOOSE x \in g : TRUE
  IN [town |-> r.town, flat_type |-> r.flat_type, month |-> r.month,
      median_price |-> MedianPriceColumn(g),
      avg_price |-> RoundDiv(SumOf(g, "resale_price"), Cardinality(g)),
      min_price |-> MinOf(g, "resale_price"),
      max_price |-> MaxOf(g, "resale_price"),
      transaction_count |-> Cardinality(g),
      avg_price_per_sqm |-> RoundDiv(SumOf(g, "price_per_sqm"), Cardinality(g)),
      price_change_pct |-> NULL]

\* The statistics written with INSERT OR IGNORE: the row of a group that
\* has one stays as it is.
updateStatisticsIgnore(old, rows, n) ==
  LET inWindow == {r \in rows : InStatsWindow(r.month, n)}
      groups == {GroupOf(r) : r \in inWindow}
      new == {StatRow({r \in inWindow : GroupOf(r) = g}) : g \in groups}
  IN old \cup {s \in new : GroupOf(s) \notin {GroupOf(o) : o \in old}}

\* updateStatistics: INSERT OR REPLACE of one row per group of the window;
\* rows of other groups stay as they are.
updateStatistics(old, rows, n) ==
  LET inWindow == {r \in rows : InStatsWindow(r.month, n)}
      groups == {GroupOf(r) : r \in inWindow}
      new == {StatRow({r \in inWindow : GroupOf(r) = g}) : g \in groups}
  IN {s \in old : GroupOf(s) \notin groups} \cup new

\* ------------------------------------------------------------------ scoring
\* The exact value of 100 - (ratio - 0.70) * 125 is a tie k' + 0.5 when
\* 125 * ratio is an integer k (then it is 187.5 - k).  The double 0.70 is
\* a little below 0.7 and the double of the ratio is a little off k / 125,
\* so the expression evaluates to the tie itself or to the double just
\* below it; Math.round then gives the upper or the lower neighbour.
\* These are the k of the ratios between 0.70 and 1.50 for which it is the
\* lower one (ratio 1.0 is k = 125: 1 - 0.70 is 0.30000000000000004 and
\* the score is 62).
TieBelow == (97..101) \cup (114..117) \cup (124..140) \cup (159..171)

\* The linear part of the price score with a slope of 100 for 125.
calculatePriceScoreSlope100(unitPrice, townMedian) ==
  IF townMedian <= 0 THEN 50
  ELSE IF 100 * unitPrice <= 70 * townMedian THEN 100
  ELSE IF 2 * unitPrice >= 3 * townMedian THEN 0
  ELSE (171 * townMedian - 100 * unitPrice) \div townMedian

calculatePriceScore(unitPrice, townMedian) ==
  IF townMedian <= 0 THEN 50
  ELSE IF 100 * unitPrice <= 70 * townMedian THEN 100
  ELSE IF 2 * unitPrice >= 3 * townMedian THEN 0
  ELSE IF (125 * unitPrice) % townMedian = 0
          /\ (125 * unitPrice) \div townMedian \in TieBelow
       THEN 187 - (125 * unitPrice) \div townMedian
  ELSE (188 * townMedian - 125 * unitPrice) \div townMedian

calculateLocationScore(mrtDistance) ==
  IF mrtDistance <= 200 THEN 100
  ELSE IF mrtDistance >= 1000 THEN 0
  ELSE (1004 - mrtDistance) \div 8

calculateLeaseScore(remainingYears) ==
  IF remainingYears >= 90 THEN 100
  ELSE IF remainingYears < 30 THEN 0
  ELSE (167 * (remainingYears - 30) + 50) \div 100

RECURSIVE SeqSum(_)
SeqSum(s) == IF s = <<>> THEN 0 ELSE Head(s) + SeqSum(Tail(s))

\* The least-squares slope over x = 0..n-1, annualised against the mean
\* price, as a score: annualGrowth = 1200 * n * num / (den * ySum), for
\* prices that are not negative.  When every price is 0 the slope and the
\* mean are 0 and annualGrowth is 0 / 0: both comparisons are false and
\* Math.round returns NaN.
regressionScore(priceHistory) ==
  LET n == Len(priceHistory)
      xSum == (n * (n - 1)) \div 2
      ySum == SeqSum(priceHistory)
      xySum == SeqSum([x \in 1..n |-> (x - 1) * priceHistory[x]])
      xxSum == (n * (n - 1) * (2 * n - 1)) \div 6
      num == n * xySum - xSum * ySum
      den == n * xxSum - xSum * xSum
  IN IF ySum = 0 THEN NaN
     ELSE IF 1200 * n * num >= 5 * den * ySum THEN 100
     ELSE IF 1200 * n * num <= (0 - 5) * den * ySum THEN 0
     ELSE (101 * den * ySum + 24000 * n * num) \div (2 * den * ySum)

\* The neutral score given only to histories of fewer than three points.
calculateAppreciationScoreUnder3(priceHistory) ==
  IF Len(priceHistory) < 3 THEN 50 ELSE regressionScore(priceHistory)

calculateAppreciationScore(priceHistory) ==
  IF Len(priceHistory) < 4 THEN 50 ELSE regressionScore(priceHistory)

calculateAmenitiesScore(amenities) ==
  LET score == (IF amenities.schools > 0 THEN 30 ELSE 0)
             + (IF amenities.malls > 0 THEN 30 ELSE 0)
             + (IF amenities.parks > 0 THEN 20 ELSE 0)
             + (IF amenities.hawkers > 0 THEN 20 ELSE 0)
  IN Min(score, 100)

\* DEFAULT_WEIGHTS, in hundredths.
DEFAULT_WEIGHTS ==
  [price |-> 30, location |-> 25, lease |-> 20, appreciation |-> 15,
   amenities |-> 10]

\* Math.round(totalScore * 10), for the sum in hundredths: totalScore is
\* a sum of doubles (0.30, 0.15 and 0.10 are not exact), so the double of
\* a sum whose exact value is a tie of the rounding (11.55) is the tie or
\* a double next to it (11.549999999999999), on a side that depends on the
\* operands: either neighbour.
RoundedTenths(sum) ==
  IF sum % 10 = 5 THEN {sum \div 10, sum \div 10 + 1}
  ELSE {(sum + 5) \div 10}

\* The weights of price and location taken one for the other.
calculateTotalScoreSwapped(ud) ==
  LET priceScore == calculatePriceScore(ud.resale_price, ud.town_median)
      locationScore == calculateLocationScore(ud.mrt_distance)
      leaseScore == calculateLeaseScore(ud.remaining_lease_years)
      appreciationScore == calculateAppreciationScore(ud.price_history)
      amenitiesScore == calculateAmenitiesScore(ud.amenities)
      totalScore == DEFAULT_WEIGHTS.location * priceScore
                    + DEFAULT_WEIGHTS.price * locationScore
                    + DEFAULT_WEIGHTS.lease * leaseScore
                    + DEFAULT_WEIGHTS.appreciation * appreciationScore
                    + DEFAULT_WEIGHTS.amenities * amenitiesScore
  IN {[total_score |-> total,
       price_score |-> priceScore,
       location_score |-> locationScore,
       lease_score |-> leaseScore,
       appreciation_score |-> appreciationScore,
       amenities_score |-> amenitiesScore] :
        total \in IF appreciationScore = NaN THEN {NaN}
                  ELSE RoundedTenths(totalScore)}

\* calculateTotalScore with DEFAULT_WEIGHTS: the ScoreBreakdowns it can
\* return, total_score in tenths.  A NaN sub-score makes the sum NaN.
calculateTotalScore(ud) ==
  LET priceScore == calculatePriceScore(ud.resale_price, ud.town_median)
      locationScore == calculateLocationScore(ud.mrt_distance)
      leaseScore == calculateLeaseScore(ud.remaining_lease_years)
      appreciationScore == calculateAppreciationScore(ud.price_history)
      amenitiesScore == calculateAmenitiesScore(ud.amenities)
      totalScore == DEFAULT_WEIGHTS.price * priceScore
                    + DEFAULT_WEIGHTS.location * locationScore
                    + DEFAULT_WEIGHTS.lease * leaseScore
                    + DEFAULT_WEIGHTS.appreciation * appreciationScore
                    + DEFAULT_WEIGHTS.amenities * amenitiesScore
  IN {[total_score |-> total,
       price_score |-> priceScore,
       location_score |-> locationScore,
       lease_score |-> leaseScore,
       appreciation_score |-> appreciationScore,
       amenities_score |-> amenitiesScore] :
        total \in IF appreciationScore = NaN THEN {NaN}
                  ELSE RoundedTenths(totalScore)}

\* ------------------------------------------------------- enrichment provider
\* What the OneMap client functions return for an address.
\* getCoordinates: the coordinates of the address when it resolves it.
Coord(block) == IF block = "B1" THEN 1 ELSE 2

NoMrt == [found |-> FALSE, name |-> NoText, distance |-> 0]

\* getNearestMRT: a station with its haversine distance, or null.  Block
\* B1 has a station within the 500 m buffer; for block B2 the lookup fails
\* or finds no station, and returns null either way.
MrtAnswers(block) ==
  IF block = "B1" THEN {[found |-> TRUE, name |-> "X MRT STATION", distance |-> 300]}
  ELSE {NoMrt}

\* getNearbyAmenities for the four themes; a failed lookup returns 0, as
\* the lookups of block B2 do.
AmenityAnswers(block) ==
  IF block = "B1" THEN {[schools |-> 2, malls |-> 0, parks |-> 1, hawkers |-> 1]}
  ELSE {[schools |-> 0, malls |-> 0, parks |-> 0, hawkers |-> 0]}

\* ---------------------------------------------------------------- the state
VARIABLES
  now,        \* the clock, a month index
  upstream,   \* ids of the records the upstream dataset holds
  txns,       \* rows of hdb_transactions
  stats,      \* rows of price_statistics
  scores,     \* rows of unit_scores
  sync,       \* the sync_metadata row of sync_type 'hdb_data'
  inv,        \* the handler invocations: locals and position of each
  hist,       \* what earlier sync invocations did
  env,        \* the deployment: are the OneMap credentials configured, and
              \* the blocks whose address the provider does not know
  events,     \* clock steps, started invocations and failed calls so far
  procs,      \* the invocation slots in use
  cache,      \* the entries of the CACHE key-value namespace
  clock,      \* the time of day, in seconds
  reply,      \* the last response of the comparison handler
  unitData,   \* the UnitData handed to the scoring engine
  breakdown   \* the ScoreBreakdown it returned

\* The state of the read side: the cache and the scoring engine's caller.
api == <<cache, clock, reply, unitData, breakdown>>

vars == <<now, upstream, txns, stats, scores, sync, inv, hist, env, events, procs, api>>

NoRun == [ok |-> FALSE, cut |-> FALSE, same |-> FALSE]

IdleInv ==
  [kind |-> "none", pc |-> "idle", unauth |-> FALSE, resp |-> 0,
   filterDate |-> NULL, offset |-> 0, allRecords |-> <<>>, fetched |-> 0,
   i |-> 0, insertedCount |-> 0, err |-> NoText,
   medianMap |-> {}, backlog |-> {}, processed |-> 0,
   hit429 |-> 0, unsuccessful |-> FALSE, capped |-> FALSE,
   skip |-> NoText, limited |-> FALSE,
   pages |-> 0, stop |-> NoText, at |-> NoText, unit |-> NoText,
   wrote |-> {}, called |-> {},
   snap |-> {}, keys0 |-> {}, prev |-> NoRun]

InitData ==
  /\ now = StartMonth
  /\ upstream = {}
  /\ txns = {}
  /\ stats = {}
  /\ scores = {}
  /\ sync = [status |-> "pending", records_processed |-> 0,
             error_message |-> NoText, last_sync_at |-> NULL]
  /\ hist = [ok |-> FALSE, cut |-> FALSE, published |-> TRUE, owed |-> NULL]
  /\ events = 0

\* No request has reached the read side.
\* The null of a cached or computed ComparisonResponse.
NoData == [town |-> NoText, flat_type |-> NoText, range |-> NoText, data |-> {}]

NoReply ==
  [status |-> 0, source |-> NoText, key |-> NoText, data |-> NoData,
   cached_at |-> NULL, failed |-> NoText]

NoUnit ==
  [resale_price |-> 0, town_median |-> 0, mrt_distance |-> 0,
   remaining_lease_years |-> 0, price_history |-> <<>>,
   amenities |-> [schools |-> 0, malls |-> 0, parks |-> 0, hawkers |-> 0]]

NoBreakdown ==
  [total_score |-> NULL, price_score |-> NULL, location_score |-> NULL,
   lease_score |-> NULL, appreciation_score |-> NULL, amenities_score |-> NULL]

InitApi ==
  /\ cache = {}
  /\ clock = 0
  /\ reply = NoReply
  /\ unitData = NoUnit
  /\ breakdown = NoBreakdown

Init ==
  /\ InitData
  /\ InitApi
  /\ env \in [creds : BOOLEAN, unknown : {{}}]
  /\ procs = {1}
  /\ inv = [p \in procs |-> IdleInv]

Quiescent == \A p \in procs : inv[p].pc = "idle"

\* One more of the events a behaviour may see: a call fails, a month
\* passes, an invocation starts.
Event == events < MaxEvents /\ events' = events + 1

\* ------------------------------------------------------------ environment
\* A month passes.
Tick ==
  /\ Quiescent
  /\ Event
  /\ now' = now + 1
  /\ UNCHANGED <<upstream, txns, stats, scores, sync, inv, hist, env, procs, api>>

\* The upstream dataset publishes one more record; it publishes in month
\* order and nothing dated after the current month.
Publish ==
  /\ Quiescent
  /\ \E id \in FeedIds \ upstream :
       /\ Feed[id].month <= now
       /\ \A j \in FeedIds : Feed[j].month < Feed[id].month => j \in upstream
       /\ upstream' = upstream \cup {id}
  /\ hist' = [hist EXCEPT !.published = TRUE]
  /\ UNCHANGED <<now, txns, stats, scores, sync, inv, env, events, procs, api>>

\* ------------------------------------------------------- handler plumbing
\* The request has neither the cf-cron header nor the shared secret.
LacksCredentials(isCron, secret) == ~isCron /\ secret # ValidSecret

\* The handler returns a response; its locals are gone.
Return(r, status) ==
  [r EXCEPT !.pc = "done", !.resp = status, !.offset = 0, !.allRecords = <<>>,
            !.i = 0, !.medianMap = {}, !.backlog = {}]

\* What a finished sync invocation leaves for the next one to compare with.
Leave(r, status) ==
  [ok |-> status = 200,
   cut |-> r.hit429 > 0 \/ r.unsuccessful,
   published |-> FALSE,
   owed |-> IF status = 200 /\ r.hit429 > 0 /\ r.insertedCount > 0
               /\ (hist.owed = NULL \/ r.filterDate < hist.owed)
            THEN r.filterDate ELSE hist.owed]

\* The response has been delivered; the slot is free for the next request.
Finish(p) ==
  /\ inv[p].pc = "done"
  /\ inv' = [inv EXCEPT ![p] = IdleInv]
  /\ UNCHANGED <<now, upstream, txns, stats, scores, sync, hist, env, events, procs, api>>

DbError == "Error: D1_ERROR"
UpstreamError == "Error: HDB API returned 500"

Set(p, r) == inv' = [inv EXCEPT ![p] = r]

\* A storage call of the sync throws: into the catch block.
Thrown(r, message) == [r EXCEPT !.pc = "catch", !.err = message, !.at = r.pc]

\* ------------------------------------------------- cron.ts GET: the sync
\* The access check and the D1 binding check.
StartSync(p) ==
  /\ inv[p].pc = "idle"
  /\ events < MaxEvents
  /\ \E isCron \in BOOLEAN, secret \in Secrets, hasDB \in BOOLEAN :
       LET r == [IdleInv EXCEPT !.kind = "cron",
                                !.unauth = LacksCredentials(isCron, secret)]
       IN IF ~Authorized(isCron, secret)
          THEN Set(p, Return(r, 401)) /\ UNCHANGED events
          ELSE IF ~hasDB
          THEN Set(p, Return(r, 500)) /\ UNCHANGED events
          ELSE /\ Set(p, [r EXCEPT !.pc = "running", !.snap = upstream,
                                   !.keys0 = Keys(txns),
                                   !.prev = [ok |-> hist.ok, cut |-> hist.cut,
                                             same |-> ~hist.published]])
               /\ events' = events + 1
  /\ UNCHANGED <<now, upstream, txns, stats, scores, sync, hist, env, procs, api>>

\* UPDATE sync_metadata SET status = 'running', last_sync_at = ?
MarkRunning(p) ==
  /\ inv[p].pc = "running"
  /\ \/ /\ sync' = [sync EXCEPT !.status = "running", !.last_sync_at = now]
        /\ Set(p, [inv[p] EXCEPT !.pc = "watermark",
                                 !.wrote = @ \cup {"sync_metadata"}])
        /\ UNCHANGED events
     \/ /\ Event
        /\ Set(p, Thrown(inv[p], DbError))
        /\ UNCHANGED sync
  /\ UNCHANGED <<now, upstream, txns, stats, scores, hist, env, procs, api>>

\* SELECT MAX(month) and the choice of filterDate.
Watermark(p) ==
  /\ inv[p].pc = "watermark"
  /\ \/ /\ Set(p, [inv[p] EXCEPT !.pc = "fetch",
                                 !.filterDate = FilterDate(MaxMonth(txns), now)])
        /\ UNCHANGED events
     \/ /\ Event
        /\ Set(p, Thrown(inv[p], DbError))
  /\ UNCHANGED <<now, upstream, txns, stats, scores, sync, hist, env, procs, api>>

\* Where the handler goes when the fetch loop is left.
AfterFetch(r) ==
  [r EXCEPT !.pc = IF Len(r.allRecords) > 0 THEN "insert" ELSE "stats",
            !.fetched = Len(r.allRecords)]

\* The filter of one page with > in the place of >=.
RelevantStrict(records, filterDate) ==
  SelectSeq(records, LAMBDA id : Feed[id].month > filterDate)

\* records.filter(r => r.month >= filterDate)
Relevant(records, filterDate) ==
  SelectSeq(records, LAMBDA id : Feed[id].month >= filterDate)

\* A fetch loop without the page cap.
CapNever(offset) == FALSE

\* offset / limit >= maxPages
CapReached(offset) == offset >= maxPages * limit

\* The page request at the current offset has been issued.
Requested(r) == [r EXCEPT !.pages = @ + 1, !.called = @ \cup {"hdb"}]

\* The loop is left for the given reason.
Stopped(r, reason) == AfterFetch([r EXCEPT !.stop = reason])

\* One iteration of the fetch loop whose page request is answered 200
\* with success = true.
FetchPage(p) ==
  /\ inv[p].pc = "fetch"
  /\ LET r == inv[p]
         records == Page(upstream, r.offset)
         filtered == Relevant(records, r.filterDate)
         got == [Requested(r) EXCEPT !.allRecords = @ \o filtered]
         offset2 == r.offset + limit
         next == [got EXCEPT !.offset = offset2]
     IN IF Len(records) = 0 THEN Set(p, Stopped(got, "empty"))
        ELSE IF Feed[records[1]].month < r.filterDate THEN Set(p, Stopped(got, "older"))
        ELSE IF Len(records) < limit THEN Set(p, Stopped(got, "short"))
        ELSE IF Len(got.allRecords) = 0 /\ offset2 > emptyStopPages * limit
             THEN Set(p, Stopped(next, "none relevant"))
        ELSE IF CapReached(offset2)
             THEN Set(p, Stopped([next EXCEPT !.capped = TRUE], "cap"))
        ELSE IF offset2 < safetyPagesOffset * limit
             THEN Set(p, next)
        ELSE Set(p, Stopped(next, "safety limit"))
  /\ UNCHANGED <<now, upstream, txns, stats, scores, sync, hist, env, events, procs, api>>

\* The page request is answered 200 with success = false.
FetchUnsuccessful(p) ==
  /\ inv[p].pc = "fetch"
  /\ Event
  /\ Set(p, Stopped([Requested(inv[p]) EXCEPT !.unsuccessful = TRUE],
                    "unsuccessful"))
  /\ UNCHANGED <<now, upstream, txns, stats, scores, sync, hist, env, procs, api>>

\* A 429 treated like every other non-success status: thrown.
ThrowRateLimited(r) ==
  [Requested(r) EXCEPT !.pc = "catch", !.err = UpstreamError, !.at = "fetch",
                       !.hit429 = r.offset \div limit + 1]

\* The page request is answered 429: the loop is left, nothing is thrown.
OnRateLimited(r) ==
  Stopped([Requested(r) EXCEPT !.hit429 = r.offset \div limit + 1],
          "rate limited")

FetchRateLimited(p) ==
  /\ inv[p].pc = "fetch"
  /\ Event
  /\ Set(p, OnRateLimited(inv[p]))
  /\ UNCHANGED <<now, upstream, txns, stats, scores, sync, hist, env, procs, api>>

\* The page request is answered with another non-success status: throw.
FetchFailed(p) ==
  /\ inv[p].pc = "fetch"
  /\ Event
  /\ Set(p, Thrown(Requested(inv[p]), UpstreamError))
  /\ UNCHANGED <<now, upstream, txns, stats, scores, sync, hist, env, procs, api>>

\* One chunk of the batch insert: DB.batch of batchSize statements, which
\* D1 runs as one transaction.
InsertChunk(p) ==
  /\ inv[p].pc = "insert"
  /\ LET r == inv[p]
         batch == SubSeq(r.allRecords, r.i + 1,
                         Min(r.i + batchSize, Len(r.allRecords)))
         res == BatchInsert(txns, batch)
     IN \/ /\ txns' = res.rows
           /\ Set(p, [r EXCEPT
                  !.i = r.i + batchSize,
                  !.insertedCount = @ + res.inserted,
                  !.wrote = @ \cup {"hdb_transactions"},
                  !.pc = IF r.i + batchSize < Len(r.allRecords)
                         THEN "insert" ELSE "stats"])
           /\ UNCHANGED events
        \/ /\ Event
           /\ Set(p, Thrown(r, DbError))
           /\ UNCHANGED txns
  /\ UNCHANGED <<now, upstream, stats, scores, sync, hist, env, procs, api>>

\* await updateStatistics(DB)
RecomputeStatistics(p) ==
  /\ inv[p].pc = "stats"
  /\ \/ /\ stats' = updateStatistics(stats, txns, now)
        /\ Set(p, [inv[p] EXCEPT !.pc = "token",
                                 !.wrote = @ \cup {"price_statistics"}])
        /\ UNCHANGED events
     \/ /\ Event
        /\ Set(p, Thrown(inv[p], DbError))
        /\ UNCHANGED stats
  /\ UNCHANGED <<now, upstream, txns, scores, sync, hist, env, procs, api>>

\* --------------------------------- populateUnitScores / the enrich handlers
\* A handler that is not the sync has no try/catch around its queries: a
\* thrown error ends it with a server error.
Throw(r) == IF r.kind = "cron" THEN Thrown(r, DbError) ELSE Return(r, 500)

\* The enrichment phase goes on to its queries without a token.
ContinueEnrichment(r) == [r EXCEPT !.pc = "medians"]

\* The enrichment phase cannot start and that is thrown to the caller.
ThrowOnSkip(r) ==
  IF r.kind = "cron"
  THEN [r EXCEPT !.pc = "catch", !.err = "Error: enrichment unavailable"]
  ELSE [r EXCEPT !.pc = "done", !.resp = 500]

\* The enrichment phase cannot start: the sync goes on to its terminal
\* write, an enrichment handler answers 500.
SkipEnrichment(r) ==
  IF r.kind = "cron" THEN [r EXCEPT !.pc = "complete"] ELSE Return(r, 500)

\* A loop that is left when a call for a unit fails, whatever is still in
\* the batch.
LoopStopsOnFailure(r) ==
  IF r.backlog # {} /\ r.unit \in {NoText, "scored"} THEN r
  ELSE IF r.kind = "cron" THEN [r EXCEPT !.pc = "complete"]
  ELSE Return(r, 200)

\* The per-unit loop is over: the sync goes on to its terminal write, an
\* enrichment handler answers 200.
LoopNext(r) ==
  IF r.backlog # {} THEN r
  ELSE IF r.kind = "cron" THEN [r EXCEPT !.pc = "complete"]
  ELSE Return(r, 200)

\* ONEMAP_EMAIL or ONEMAP_PASSWORD is not configured.
CredentialsMissing(p) ==
  /\ inv[p].pc = "token"
  /\ ~env.creds
  /\ Set(p, SkipEnrichment([inv[p] EXCEPT !.skip = "credentials"]))
  /\ UNCHANGED <<now, upstream, txns, stats, scores, sync, hist, env, events, procs, api>>

\* getOneMapToken returns null.
TokenFailed(p) ==
  /\ inv[p].pc = "token"
  /\ env.creds
  /\ Event
  /\ Set(p, SkipEnrichment([inv[p] EXCEPT !.called = @ \cup {"token"},
                                          !.skip = "token"]))
  /\ UNCHANGED <<now, upstream, txns, stats, scores, sync, hist, env, procs, api>>

\* getOneMapToken returns a token.
TokenOk(p) ==
  /\ inv[p].pc = "token"
  /\ env.creds
  /\ Set(p, [inv[p] EXCEPT !.pc = "medians", !.called = @ \cup {"token"}])
  /\ UNCHANGED <<now, upstream, txns, stats, scores, sync, hist, env, events, procs, api>>

\* The medians of the statistics rows of every month.
LatestMediansAnyMonth(rows) ==
  {[town |-> s.town, flat_type |-> s.flat_type, median_price |-> s.median_price] :
     s \in rows}

\* SELECT town, flat_type, median_price FROM price_statistics
\* WHERE month = (SELECT MAX(month) FROM price_statistics)
LatestMedians(rows) ==
  {[town |-> s.town, flat_type |-> s.flat_type, median_price |-> s.median_price] :
     s \in {x \in rows : x.month = MaxMonth(rows)}}

LoadMedians(p) ==
  /\ inv[p].pc = "medians"
  /\ \/ /\ Set(p, [inv[p] EXCEPT !.pc = "backlog",
                                 !.medianMap = LatestMedians(stats)])
        /\ UNCHANGED events
     \/ /\ Event
        /\ Set(p, Throw(inv[p]))
  /\ UNCHANGED <<now, upstream, txns, stats, scores, sync, hist, env, procs, api>>

\* The rows of the latest transaction_date of each (block, street_name).
Representatives(rows) ==
  {t \in rows : \A u \in rows :
     (u.block = t.block /\ u.street_name = t.street_name) => u.month <= t.month}

\* s.calculated_at < date('now', '-30 days')
Stale(s, n) == s.calculated_at < n - StaleSteps

\* The backlog query of the sync and of the chunked enrichment: the
\* representatives LEFT JOINed with unit_scores on block and street_name,
\* kept where the joined score is missing or stale.  One element per
\* joined row: the transaction and the (town, flat_type) of the score row.
StaleBacklog(rows, scoreRows, n) ==
  LET reps == Representatives(rows)
      Matches(t) == {s \in scoreRows :
                       s.block = t.block /\ s.street_name = t.street_name}
  IN {<<t, <<>>>> : t \in {x \in reps : Matches(x) = {}}}
     \cup UNION {{<<t, <<s.town, s.flat_type>>>> :
                    s \in {x \in Matches(t) : x.total_score = NULL \/ Stale(x, n)}} :
                 t \in reps}

\* The backlog query of the second enrichment handler: every representative.
AllBacklog(rows) == {<<t, <<>>>> : t \in Representatives(rows)}

BacklogLimit(kind) ==
  IF kind = "cron" THEN cronBacklogLimit
  ELSE IF kind = "enrich" THEN enrichBacklogLimit
  ELSE enrichAllLimit

\* The backlog query; LIMIT without ORDER BY keeps any rows up to the limit.
SelectBacklog(p) ==
  /\ inv[p].pc = "backlog"
  /\ \/ /\ LET r == inv[p]
               cands == IF r.kind = "enrichAll" THEN AllBacklog(txns)
                        ELSE StaleBacklog(txns, scores, now)
               size == Min(BacklogLimit(r.kind), Cardinality(cands))
           IN \E sel \in SUBSET cands :
                /\ Cardinality(sel) = size
                /\ Set(p, LoopNext([r EXCEPT !.pc = "units", !.backlog = sel]))
        /\ UNCHANGED events
     \/ /\ Event
        /\ Set(p, Throw(inv[p]))
  /\ UNCHANGED <<now, upstream, txns, stats, scores, sync, hist, env, procs, api>>

\* medianMap.get(`${town}:${flat_type}`) || 0
TownMedian(medianMap, t) ==
  LET hits == {m \in medianMap : m.town = t.town /\ m.flat_type = t.flat_type}
  IN IF hits = {} THEN 0
     ELSE LET v == (CHOOSE m \in hits : TRUE).median_price
          IN IF v = NULL THEN 0 ELSE v

\* A unitData whose price history is the unit's price after three months
\* without a sale.
UnitDataWithHistory(t, medianMap, mrt, amenities) ==
  [resale_price |-> t.resale_price,
   town_median |-> TownMedian(medianMap, t),
   mrt_distance |-> IF mrt.found THEN mrt.distance ELSE 1500,
   remaining_lease_years |-> IF t.remaining_lease_years = NULL
                                \/ t.remaining_lease_years = 0
                             THEN 95 ELSE t.remaining_lease_years,
   price_history |-> <<0, 0, 0, t.resale_price>>,
   amenities |-> amenities]

\* A unitData that hands the lease years on as they are stored.
UnitDataLeaseAsStored(t, medianMap, mrt, amenities) ==
  [resale_price |-> t.resale_price,
   town_median |-> TownMedian(medianMap, t),
   mrt_distance |-> IF mrt.found THEN mrt.distance ELSE 1500,
   remaining_lease_years |-> t.remaining_lease_years,
   price_history |-> <<>>,
   amenities |-> amenities]

\* A unitData without the sentinel distance: what the lookup returned.
UnitDataNoSentinel(t, medianMap, mrt, amenities) ==
  [resale_price |-> t.resale_price,
   town_median |-> TownMedian(medianMap, t),
   mrt_distance |-> mrt.distance,
   remaining_lease_years |-> IF t.remaining_lease_years = NULL
                                \/ t.remaining_lease_years = 0
                             THEN 95 ELSE t.remaining_lease_years,
   price_history |-> <<>>,
   amenities |-> amenities]

\* The unitData the loop builds for one transaction.
UnitData(t, medianMap, mrt, amenities) ==
  [resale_price |-> t.resale_price,
   town_median |-> TownMedian(medianMap, t),
   mrt_distance |-> IF mrt.found THEN mrt.distance ELSE 1500,
   remaining_lease_years |-> IF t.remaining_lease_years = NULL
                                \/ t.remaining_lease_years = 0
                             THEN 95 ELSE t.remaining_lease_years,
   price_history |-> <<>>,
   amenities |-> amenities]

\* The row of INSERT OR REPLACE INTO unit_scores.
ScoreRow(t, ud, score, mrt, amenities, n) ==
     [block |-> t.block, street_name |-> t.street_name, town |-> t.town,
      flat_type |-> t.flat_type,
      total_score |-> score.total_score, price_score |-> score.price_score,
      location_score |-> score.location_score, lease_score |-> score.lease_score,
      appreciation_score |-> score.appreciation_score,
      amenities_score |-> score.amenities_score,
      mrt_distance |-> ud.mrt_distance,
      nearest_mrt |-> IF mrt.found THEN mrt.name ELSE "None nearby",
      nearby_schools |-> amenities.schools, nearby_malls |-> amenities.malls,
      nearby_parks |-> amenities.parks,
      calculated_at |-> n]

ScoreKey(s) == <<s.block, s.street_name, s.town, s.flat_type>>

\* INSERT OR REPLACE on UNIQUE(block, street_name, town, flat_type).
ReplaceScore(rows, row) ==
  {s \in rows : ScoreKey(s) # ScoreKey(row)} \cup {row}

\* The UPDATE of the coordinates without its WHERE clause.
SetCoordinatesAll(rows, t, coords) ==
  {[u EXCEPT !.latitude = coords] : u \in rows}

\* UPDATE hdb_transactions SET latitude = ?, longitude = ?
\* WHERE block = ? AND street_name = ?
SetCoordinates(rows, t, coords) ==
  {IF u.block = t.block /\ u.street_name = t.street_name
   THEN [u EXCEPT !.latitude = coords] ELSE u : u \in rows}

\* One unit of the loop for which getCoordinates returns null, because
\* the provider answered 429 (a non-ok response) or found no address: the
\* loop continues with the next unit.
UnitSkipped(p) ==
  /\ inv[p].pc = "units"
  /\ Event
  /\ \E e \in inv[p].backlog, status \in {429, 200} :
       Set(p, LoopNext([inv[p] EXCEPT !.backlog = @ \ {e},
                                     !.unit = "geocode miss",
                                     !.limited = @ \/ status = 429,
                                     !.called = @ \cup {"geocode"}]))
  /\ UNCHANGED <<now, upstream, txns, stats, scores, sync, hist, env, procs, api>>

\* One unit of the loop whose address the provider does not know:
\* getCoordinates returns null whenever it is asked, and the loop continues
\* with the next unit.
UnitUnknown(p) ==
  /\ inv[p].pc = "units"
  /\ \E e \in {x \in inv[p].backlog : x[1].block \in env.unknown} :
       Set(p, LoopNext([inv[p] EXCEPT !.backlog = @ \ {e},
                                     !.unit = "geocode miss",
                                     !.called = @ \cup {"geocode"}]))
  /\ UNCHANGED <<now, upstream, txns, stats, scores, sync, hist, env, events, procs, api>>

\* One unit of the loop that is geocoded and scored; the statement that
\* follows the score write (not in the second enrichment handler) may throw
\* into the unit's catch.
UnitScored(p) ==
  /\ inv[p].pc = "units"
  /\ \E e \in {x \in inv[p].backlog : x[1].block \notin env.unknown},
        updateOk \in BOOLEAN :
     \E mrt \in MrtAnswers(e[1].block), amenities \in AmenityAnswers(e[1].block) :
     \E score \in calculateTotalScore(UnitData(e[1], inv[p].medianMap, mrt, amenities)) :
       LET r == inv[p]
           t == e[1]
           coords == Coord(t.block)
           row == ScoreRow(t, UnitData(t, r.medianMap, mrt, amenities), score,
                           mrt, amenities, now)
           update == r.kind # "enrichAll" /\ updateOk
       IN /\ r.kind = "enrichAll" => updateOk
          /\ IF updateOk THEN UNCHANGED events ELSE Event
          /\ scores' = ReplaceScore(scores, row)
          /\ txns' = IF update THEN SetCoordinates(txns, t, coords) ELSE txns
          /\ Set(p, LoopNext([r EXCEPT
                 !.backlog = @ \ {e},
                 !.unit = IF updateOk THEN "scored" ELSE "backfill failed",
                 !.processed = IF updateOk THEN @ + 1 ELSE @,
                 !.called = @ \cup {"geocode", "transit", "amenities"},
                 !.wrote = @ \cup {"unit_scores"}
                            \cup (IF update THEN {"hdb_transactions"} ELSE {})]))
  /\ UNCHANGED <<now, upstream, stats, sync, hist, env, procs, api>>

\* One unit of the loop whose score write throws into the unit's catch.
UnitWriteFailed(p) ==
  /\ inv[p].pc = "units"
  /\ Event
  /\ \E e \in inv[p].backlog :
       Set(p, LoopNext([inv[p] EXCEPT
              !.backlog = @ \ {e},
              !.unit = "score write failed",
              !.called = @ \cup {"geocode", "transit", "amenities"}]))
  /\ UNCHANGED <<now, upstream, txns, stats, scores, sync, hist, env, procs, api>>

\* The terminal write without its error_message = NULL.
CompleteKeepsError(p) ==
  /\ inv[p].pc = "complete"
  /\ \/ /\ sync' = [sync EXCEPT !.status = "completed",
                                !.records_processed = inv[p].insertedCount]
        /\ Set(p, Return(inv[p], 200))
        /\ hist' = Leave(inv[p], 200)
        /\ UNCHANGED events
     \/ /\ Event
        /\ Set(p, Thrown(inv[p], DbError))
        /\ UNCHANGED <<sync, hist>>
  /\ UNCHANGED <<now, upstream, txns, stats, scores, env, procs, api>>

\* UPDATE sync_metadata SET status = 'completed', records_processed = ?,
\* error_message = NULL, and the success response.
Complete(p) ==
  /\ inv[p].pc = "complete"
  /\ \/ /\ sync' = [sync EXCEPT !.status = "completed",
                                !.records_processed = inv[p].insertedCount,
                                !.error_message = NoText]
        /\ Set(p, Return(inv[p], 200))
        /\ hist' = Leave(inv[p], 200)
        /\ UNCHANGED events
     \/ /\ Event
        /\ Set(p, Thrown(inv[p], DbError))
        /\ UNCHANGED <<sync, hist>>
  /\ UNCHANGED <<now, upstream, txns, stats, scores, env, procs, api>>

\* The catch block: try UPDATE sync_metadata SET status = 'failed',
\* error_message = ?; an error of that write is logged and dropped; the
\* error response.
Catch(p) ==
  /\ inv[p].pc = "catch"
  /\ \/ /\ sync' = [sync EXCEPT !.status = "failed",
                                !.error_message = inv[p].err]
        /\ UNCHANGED events
     \/ /\ Event
        /\ UNCHANGED sync
  /\ Set(p, Return(inv[p], 500))
  /\ hist' = Leave(inv[p], 500)
  /\ UNCHANGED <<now, upstream, txns, stats, scores, env, procs, api>>

\* ------------------------------------------- enrich.ts: the two handlers
\* The chunked enrichment: access check, D1 binding check.
StartEnrich(p) ==
  /\ inv[p].pc = "idle"
  /\ events < MaxEvents
  /\ \E isCron \in BOOLEAN, secret \in Secrets, hasDB \in BOOLEAN :
       LET r == [IdleInv EXCEPT !.kind = "enrich",
                                !.unauth = LacksCredentials(isCron, secret)]
       IN IF ~Authorized(isCron, secret)
          THEN Set(p, Return(r, 401)) /\ UNCHANGED events
          ELSE IF ~hasDB
          THEN Set(p, Return(r, 500)) /\ UNCHANGED events
          ELSE Set(p, [r EXCEPT !.pc = "token"]) /\ events' = events + 1
  /\ UNCHANGED <<now, upstream, txns, stats, scores, sync, hist, env, procs, api>>

\* The second enrichment handler reads only `locals`: D1 binding check.
StartEnrichAll(p) ==
  /\ inv[p].pc = "idle"
  /\ events < MaxEvents
  /\ \E isCron \in BOOLEAN, secret \in Secrets, hasDB \in BOOLEAN :
       LET r == [IdleInv EXCEPT !.kind = "enrichAll",
                                !.unauth = LacksCredentials(isCron, secret)]
       IN IF ~hasDB
          THEN Set(p, Return(r, 500)) /\ UNCHANGED events
          ELSE Set(p, [r EXCEPT !.pc = "token"]) /\ events' = events + 1
  /\ UNCHANGED <<now, upstream, txns, stats, scores, sync, hist, env, procs, api>>

\* ------------------------------------------------------------ specification
Next ==
  \/ Tick
  \/ Publish
  \/ \E p \in procs : StartSync(p)
  \/ \E p \in procs : MarkRunning(p)
  \/ \E p \in procs : Watermark(p)
  \/ \E p \in procs : FetchPage(p)
  \/ \E p \in procs : FetchUnsuccessful(p)
  \/ \E p \in procs : FetchRateLimited(p)
  \/ \E p \in procs : FetchFailed(p)
  \/ \E p \in procs : InsertChunk(p)
  \/ \E p \in procs : RecomputeStatistics(p)
  \/ \E p \in procs : CredentialsMissing(p)
  \/ \E p \in procs : TokenFailed(p)
  \/ \E p \in procs : TokenOk(p)
  \/ \E p \in procs : LoadMedians(p)
  \/ \E p \in procs : SelectBacklog(p)
  \/ \E p \in procs : UnitSkipped(p)
  \/ \E p \in procs : UnitScored(p)
  \/ \E p \in procs : UnitWriteFailed(p)
  \/ \E p \in procs : Complete(p)
  \/ \E p \in procs : Catch(p)
  \/ \E p \in procs : StartEnrich(p)
  \/ \E p \in procs : StartEnrichAll(p)
  \/ \E p \in procs : Finish(p)

Spec == Init /\ [][Next]_vars

\* ---------------------------------------------------- the scoring engine
\* The UnitData the engine is called with: prices against a median of 100
\* (ratios 0.0 to 1.6), of 40 or of 0, distances, lease years, amenity counts and
\* price histories of up to MaxHistory points.
UnitPrices == {10 * k : k \in 0..MaxPriceTens}
TownMedians == {0, 40, 100}
MrtDistances == {200, 600, 1500}
LeaseYears == {29, 60, 95}
AmenityCounts ==
  {[schools |-> 0, malls |-> 0, parks |-> 0, hawkers |-> 0],
   [schools |-> 2, malls |-> 0, parks |-> 1, hawkers |-> 1]}
HistoryPrices == {0, 1000, 1001}
PriceHistories == UNION {[1..n -> HistoryPrices] : n \in 0..MaxHistory}

UnitInputs ==
  [resale_price : UnitPrices, town_median : TownMedians,
   mrt_distance : MrtDistances, remaining_lease_years : LeaseYears,
   price_history : PriceHistories, amenities : AmenityCounts]

InitScoring ==
  /\ InitData
  /\ env = [creds |-> FALSE, unknown |-> {}]
  /\ procs = {1}
  /\ inv = [p \in procs |-> IdleInv]
  /\ cache = {}
  /\ clock = 0
  /\ reply = NoReply
  /\ unitData \in UnitInputs
  /\ breakdown = NoBreakdown

\* const score = calculateTotalScore(unitData)
Calculate ==
  /\ breakdown = NoBreakdown
  /\ breakdown' \in calculateTotalScore(unitData)
  /\ UNCHANGED <<now, upstream, txns, stats, scores, sync, inv, hist, env,
                 events, procs, cache, clock, reply, unitData>>

NextScoring == Calculate

SpecScoring == InitScoring /\ [][NextScoring]_vars

\* ------------------------------------------- two overlapping invocations
\* The upstream dataset as published by month n.
PublishedBy(n) == {id \in FeedIds : Feed[id].month <= n}

\* Two requests reach the sync handler, which takes no lock; the upstream
\* dataset and the month stay as they are while they run.
InitOverlap ==
  /\ now \in {StartMonth, StartMonth + 1}
  /\ upstream = PublishedBy(now)
  /\ txns \in {{}, {TxnRow(2)}}
  /\ stats = updateStatistics({}, txns, now)
  /\ scores = {}
  /\ sync = IF txns = {}
            THEN [status |-> "pending", records_processed |-> 0,
                  error_message |-> NoText, last_sync_at |-> NULL]
            ELSE [status |-> "completed", records_processed |-> Cardinality(txns),
                  error_message |-> NoText, last_sync_at |-> StartMonth - 1]
  /\ hist = [ok |-> FALSE, cut |-> FALSE, published |-> TRUE, owed |-> NULL]
  /\ events = 0
  /\ InitApi
  /\ env = [creds |-> FALSE, unknown |-> {}]
  /\ procs = {1, 2}
  /\ inv = [p \in procs |-> IdleInv]

NextOverlap ==
  \/ \E p \in procs : StartSync(p)
  \/ \E p \in procs : MarkRunning(p)
  \/ \E p \in procs : Watermark(p)
  \/ \E p \in procs : FetchPage(p)
  \/ \E p \in procs : FetchUnsuccessful(p)
  \/ \E p \in procs : FetchRateLimited(p)
  \/ \E p \in procs : FetchFailed(p)
  \/ \E p \in procs : InsertChunk(p)
  \/ \E p \in procs : RecomputeStatistics(p)
  \/ \E p \in procs : CredentialsMissing(p)
  \/ \E p \in procs : Complete(p)
  \/ \E p \in procs : Catch(p)

SpecOverlap == InitOverlap /\ [][NextOverlap]_vars

\* --------------------------------------- the enrichment trigger, repeated
\* The stores the trigger finds: both blocks have a representative.
DrainStores == {{2, 3}, {3, 4}, {1, 2, 3, 4, 5}}

\* The sync has stored its records and no new ones arrive; the credentials
\* are configured; the provider does not know the address of block B2, or
\* knows every address.
InitDrain ==
  /\ now = StartMonth
  /\ \E S \in DrainStores :
       /\ upstream = S
       /\ txns = {TxnRow(id) : id \in S}
       /\ sync = [status |-> "completed", records_processed |-> Cardinality(S),
                  error_message |-> NoText, last_sync_at |-> StartMonth]
  /\ stats = updateStatistics({}, txns, now)
  /\ scores = {}
  /\ hist = [ok |-> TRUE, cut |-> FALSE, published |-> FALSE, owed |-> NULL]
  /\ events = 0
  /\ InitApi
  /\ env \in [creds : {TRUE}, unknown : {{}, {"B2"}}]
  /\ procs = {1}
  /\ inv = [p \in procs |-> IdleInv]

\* GET /api/enrich again and again; of the calls of an invocation only the
\* database calls can fail.
NextDrain ==
  \/ \E p \in procs : StartEnrich(p)
  \/ \E p \in procs : TokenOk(p)
  \/ \E p \in procs : LoadMedians(p)
  \/ \E p \in procs : SelectBacklog(p)
  \/ \E p \in procs : UnitUnknown(p)
  \/ \E p \in procs : UnitScored(p)
  \/ \E p \in procs : Finish(p)

SpecDrain == InitDrain /\ [][NextDrain]_vars

\* ------------------------------------------------- the comparison endpoint
\* CACHE_TTL, in seconds.
CACHE_TTL == [COMPARISON |-> 3600, TRENDS |-> 3600, SCORES |-> 86400,
              STATS |-> 86400, GEOCODE |-> NULL]

\* `${CACHE_VERSION}:comparison:${town}:${flatType}:${range}`
getComparisonCacheKey(version, town, flatType, range) ==
  version \o ":comparison:" \o town \o ":" \o flatType \o ":" \o range

\* A query parameter that is absent reads as '' in the filter key.
OrEmpty(param) == IF param = NoText THEN "" ELSE param

\* getComparisonCacheKey(town, flatType, range).replace('v1', `v4-${filterKey}`):
\* the first 'v1' of the key is its version prefix.
ComparisonCacheKey(town, flatType, range, storey, minArea, maxArea, minLease) ==
  getComparisonCacheKey(
    "v4-" \o OrEmpty(storey) \o "-" \o OrEmpty(minArea) \o "-"
          \o OrEmpty(maxArea) \o "-" \o OrEmpty(minLease),
    town, flatType, range)

\* The live entries of the namespace: an entry put with an expirationTtl is
\* gone once its expiration is reached.
Live(kv, t) == {e \in kv : e.expiration = NULL \/ t < e.expiration}

\* getCached: kv.get(key, 'json'), null when the key has no live entry.
getCached(kv, key, t) ==
  IF \E e \in Live(kv, t) : e.key = key
  THEN (CHOOSE e \in Live(kv, t) : e.key = key).value
  ELSE NoData

\* A put that ignores the ttl it is handed: the entry never expires.
setCacheForever(kv, key, data, ttl, t) ==
  {e \in Live(kv, t) : e.key # key}
    \cup {[key |-> key, value |-> data, put_at |-> t, expiration |-> NULL]}

\* setCache: kv.put(key, JSON.stringify(data), { expirationTtl: ttl }), or
\* a put without options when ttl is undefined.
setCache(kv, key, data, ttl, t) ==
  {e \in Live(kv, t) : e.key # key}
    \cup {[key |-> key, value |-> data, put_at |-> t,
           expiration |-> IF ttl = NULL THEN NULL ELSE t + ttl]}

\* parseDateRange and the extra month or year fetched for the trends, in
\* months before today; the default range starts in 1990.
RangeMonths(range) ==
  CASE range = "1M" -> 1
    [] range = "3M" -> 3
    [] range = "6M" -> 6
    [] range = "1Y" -> 12 + 1
    [] range = "3Y" -> 36 + 12
    [] range = "5Y" -> 60 + 12
    [] OTHER -> NULL

\* transaction_date >= startDate AND transaction_date <= endDate, where
\* transaction_date is the first day of the month: the month RangeMonths ago
\* is in the window only on the first day of a month.
InRange(month, range, n) ==
  /\ month <= n
  /\ RangeMonths(range) # NULL => month > n - RangeMonths(range)

\* The WHERE clause of the comparison query.
ComparisonRows(rows, town, flatType, range, storey, n) ==
  {r \in rows : /\ r.town = town /\ r.flat_type = flatType
                /\ InRange(r.month, range, n)
                /\ storey # NoText => r.storey_range = storey}

\* SELECT resale_price ... ORDER BY resale_price LIMIT 1 OFFSET floor(count / 2)
MedianAtOffset(g) ==
  LET off == Cardinality(g) \div 2
  IN CHOOSE v \in {r.resale_price : r \in g} :
       /\ Cardinality({r \in g : r.resale_price < v}) <= off
       /\ Cardinality({r \in g : r.resale_price <= v}) > off

\* One row of the response: the aggregates of a month and its median, which
\* falls back to the average when it is 0 or absent.  The lease average and
\* the trend columns, functions of the same rows, are left out.
ComparisonRow(g) ==
  LET r == CHOOSE x \in g : TRUE
      avg == RoundDiv(SumOf(g, "resale_price"), Cardinality(g))
  IN [month |-> r.month,
      transaction_count |-> Cardinality(g),
      avg_price |-> avg,
      median_price |-> IF MedianAtOffset(g) # 0 THEN MedianAtOffset(g) ELSE avg,
      min_price |-> MinOf(g, "resale_price"),
      max_price |-> MaxOf(g, "resale_price"),
      avg_price_psm |-> RoundDiv(SumOf(g, "price_per_sqm"), Cardinality(g))]

\* responseData: { town, flat_type, range, data }
ComparisonData(rows, town, flatType, range, storey, n) ==
  LET sel == ComparisonRows(rows, town, flatType, range, storey, n)
  IN [town |-> town, flat_type |-> flatType, range |-> range,
      data |-> {ComparisonRow({r \in sel : r.month = m}) :
                  m \in {r.month : r \in sel}}]

\* The query strings of the requests.
Towns == {NoText, "A"}
FlatTypes == {NoText, "4R"}
Ranges == {NoText, "1M"}
Storeys == {NoText, "01-03"}

\* The store when the first request arrives, and the records a sync adds
\* to it afterwards.
StoredAtStart == {2, 3}
StoredLater == {1, 4}

InitComparison ==
  /\ now = StartMonth
  /\ upstream = StoredAtStart \cup StoredLater
  /\ txns = {TxnRow(id) : id \in StoredAtStart}
  /\ stats = updateStatistics({}, txns, now)
  /\ scores = {}
  /\ sync = [status |-> "completed",
             records_processed |-> Cardinality(StoredAtStart),
             error_message |-> NoText, last_sync_at |-> StartMonth]
  /\ hist = [ok |-> FALSE, cut |-> FALSE, published |-> TRUE, owed |-> NULL]
  /\ events = 0
  /\ InitApi
  /\ env = [creds |-> FALSE, unknown |-> {}]
  /\ procs = {1}
  /\ inv = [p \in procs |-> IdleInv]

\* The response of the handler: its status, and for a 200 the wrapped data.
Reply(status, source, key, data, failed) ==
  [status |-> status, source |-> source, key |-> key, data |-> data,
   cached_at |-> IF status = 200 THEN clock ELSE NULL, failed |-> failed]

\* GET /api/comparison with its query string, the whole handler.  kvRead,
\* query and kvWrite tell whether the cache read, the database queries and
\* the cache write succeed.
Compare(town, flatType, rangeParam, storey, kvRead, query, kvWrite) ==
  LET range == IF rangeParam = NoText THEN "1Y" ELSE rangeParam
      cacheKey == ComparisonCacheKey(town, flatType, range, storey,
                                     NoText, NoText, NoText)
      cached == IF kvRead THEN getCached(cache, cacheKey, clock) ELSE NoData
      responseData == ComparisonData(txns, town, flatType, range, storey, now)
  IN /\ IF kvRead /\ query /\ kvWrite THEN UNCHANGED events ELSE Event
     /\ IF town = NoText \/ flatType = NoText
        THEN /\ kvRead /\ query /\ kvWrite
             /\ reply' = Reply(400, NoText, NoText, NoData, NoText)
             /\ cache' = cache
        ELSE IF cached # NoData
        THEN /\ query /\ kvWrite
             /\ reply' = Reply(200, "cache", cacheKey, cached, NoText)
             /\ cache' = cache
        ELSE IF ~query
        THEN /\ kvWrite
             /\ reply' = Reply(500, NoText, cacheKey, NoData,
                               IF kvRead THEN "query" ELSE "get")
             /\ cache' = cache
        ELSE IF ~kvWrite
        THEN /\ reply' = Reply(500, NoText, cacheKey, NoData,
                               IF kvRead THEN "put" ELSE "get")
             /\ cache' = cache
        ELSE /\ reply' = Reply(200, "fresh", cacheKey, responseData,
                               IF kvRead THEN NoText ELSE "get")
             /\ cache' = setCache(cache, cacheKey, responseData,
                                  CACHE_TTL.COMPARISON, clock)
     /\ UNCHANGED <<now, upstream, txns, stats, scores, sync, inv, hist, env,
                    procs, clock, unitData, breakdown>>

\* Time passes between two requests.
Advance ==
  /\ clock + ClockStep <= MaxClock
  /\ clock' = clock + ClockStep
  /\ UNCHANGED <<now, upstream, txns, stats, scores, sync, inv, hist, env,
                 events, procs, cache, reply, unitData, breakdown>>

\* A sync between two requests stores one more record and recomputes the
\* statistics.
SyncStores ==
  /\ Event
  /\ \E id \in upstream :
       /\ Key(TxnRow(id)) \notin Keys(txns)
       /\ txns' = BatchInsert(txns, <<id>>).rows
       /\ stats' = updateStatistics(stats, txns', now)
  /\ UNCHANGED <<now, upstream, scores, sync, inv, hist, env, procs, api>>

NextComparison ==
  \/ \E town \in Towns, flatType \in FlatTypes, rangeParam \in Ranges,
        storey \in Storeys, kvRead \in BOOLEAN, query \in BOOLEAN,
        kvWrite \in BOOLEAN :
       Compare(town, flatType, rangeParam, storey, kvRead, query, kvWrite)
  \/ Advance
  \/ SyncStores

SpecComparison == InitComparison /\ [][NextComparison]_vars

\* ------------------------------------------------------------------ claims
\* A sync invocation that has returned its response.
SyncDone(p) == inv[p].kind = "cron" /\ inv[p].pc = "done"

\* The ids of the first k pages of the snapshot an invocation fetched from.
RECURSIVE PagesUpTo(_, _)
PagesUpTo(S, k) ==
  IF k = 0 THEN {}
  ELSE PagesUpTo(S, k - 1)
       \cup {Page(S, (k - 1) * limit)[j] : j \in 1..Len(Page(S, (k - 1) * limit))}

\* C1 as amended: when a sync invocation follows one that returned success
\* and whose fetching was not cut short by a 429 or an unsuccessful answer,
\* with nothing published upstream in between, it inserts no record and the
\* stored natural keys are those it found, each stored once.
C1_SecondRunInsertsNothing ==
  \A p \in procs :
    (SyncDone(p) /\ inv[p].prev.ok /\ ~inv[p].prev.cut /\ inv[p].prev.same)
      => /\ inv[p].insertedCount = 0
         /\ Keys(txns) = inv[p].keys0
         /\ Cardinality(txns) = Cardinality(Keys(txns))

\* C1 witness: a second successful run that fetched records already stored.
C1_Witness ==
  \E p \in procs :
    /\ SyncDone(p) /\ inv[p].resp = 200
    /\ inv[p].prev.ok /\ ~inv[p].prev.cut /\ inv[p].prev.same
    /\ inv[p].fetched > 0 /\ inv[p].keys0 # {}
    /\ inv[p].insertedCount = 0

\* C1 as stated: any sync invocation that follows a sync invocation, with
\* nothing published upstream in between, inserts no record and leaves the
\* stored transaction set unchanged.
C1_AsStated ==
  \A p \in procs :
    (SyncDone(p) /\ inv[p].resp = 200 /\ inv[p].prev.ok /\ inv[p].prev.same)
      => /\ inv[p].insertedCount = 0
         /\ Keys(txns) = inv[p].keys0

\* C2: when an authorized sync invocation that wrote status 'running' has
\* returned, the stored sync status is 'completed' or 'failed'.
C2_NeverStuckRunning ==
  \A p \in procs :
    (SyncDone(p) /\ "sync_metadata" \in inv[p].wrote)
      => sync.status \in {"completed", "failed"}

\* C3: when page k of the fetch loop is answered 429 and no storage call of
\* the invocation throws, the invocation ends with a success response and
\* status 'completed', it fetched nothing beyond page k-1, and the records
\* of pages 1..k-1 at or after the watermark are stored.
C3_RateLimitSoftStop ==
  \A p \in procs :
    (SyncDone(p) /\ inv[p].hit429 > 0 /\ inv[p].err # DbError)
      => LET kept == {id \in PagesUpTo(inv[p].snap, inv[p].hit429 - 1) :
                        Feed[id].month >= inv[p].filterDate}
         IN /\ inv[p].resp = 200
            /\ sync.status = "completed"
            /\ inv[p].fetched = Cardinality(kept)
            /\ \A id \in kept : Key(TxnRow(id)) \in Keys(txns)

\* C3 witness: a run stopped by a 429 on a page after the first that
\* inserted the records of the earlier pages and returned success.
C3_Witness ==
  \E p \in procs :
    /\ SyncDone(p) /\ inv[p].hit429 >= 2 /\ inv[p].resp = 200
    /\ inv[p].insertedCount > 0
    /\ sync.status = "completed"

\* C4: once a sync invocation runs to a success without being rate-limited
\* (nor cut by an unsuccessful answer or the page cap) after an invocation
\* that a 429 soft-stopped, every upstream record at or after the watermark
\* of the soft-stopped invocation is stored.
C4_ResumesAfterSoftStop ==
  \A p \in procs :
    (/\ SyncDone(p) /\ inv[p].resp = 200
     /\ inv[p].hit429 = 0 /\ ~inv[p].unsuccessful /\ ~inv[p].capped
     /\ hist.owed # NULL)
      => \A id \in inv[p].snap :
           Feed[id].month >= hist.owed => Key(TxnRow(id)) \in Keys(txns)

\* C5: a request to the sync trigger without the cron header and without
\* the valid secret ends at once with 401; it writes no table and calls
\* no upstream, and the step that takes it changes no stored state.
C5_UnauthorizedSyncRejected ==
  [][\A p \in procs :
       (inv'[p].kind = "cron" /\ inv'[p].unauth)
         => /\ inv'[p].pc = "done"
            /\ inv'[p].resp = 401
            /\ inv'[p].wrote = {}
            /\ inv'[p].called = {}
            /\ UNCHANGED <<txns, stats, scores, sync>>]_vars

\* C5 witness: a rejected sync request while transactions are stored.
C5_Witness ==
  \E p \in procs :
    /\ SyncDone(p) /\ inv[p].unauth /\ inv[p].resp = 401
    /\ txns # {}

\* C6: an enrichment request without the cron header and without the valid
\* secret causes no token fetch, no provider call and no unit-score write.
C6_EnrichmentSameAuth ==
  \A p \in procs :
    (inv[p].kind \in {"enrich", "enrichAll"} /\ inv[p].unauth)
      => /\ inv[p].called = {}
         /\ "unit_scores" \notin inv[p].wrote

\* The k-th smallest resale price of a group of transactions.
KthPrice(g, k) ==
  CHOOSE v \in {r.resale_price : r \in g} :
    /\ Cardinality({r \in g : r.resale_price < v}) < k
    /\ k <= Cardinality({r \in g : r.resale_price <= v})

\* Twice the rank-selected median of the prices of a group.
TwiceRankMedian(g) ==
  LET n == Cardinality(g)
  IN IF n % 2 = 1 THEN 2 * KthPrice(g, (n + 1) \div 2)
     ELSE KthPrice(g, n \div 2) + KthPrice(g, n \div 2 + 1)

\* The sync has just recomputed the statistics.
JustRecomputed(p) ==
  /\ inv[p].kind = "cron" /\ inv[p].pc = "token"
  /\ "price_statistics" \in inv[p].wrote

\* C7: right after the statistics are recomputed, the median_price of every
\* recomputed (town, flat_type, month) group is the rank-selected median of
\* the group's prices.
C7_MedianIsRankSelected ==
  \A p \in procs :
    JustRecomputed(p)
      => \A s \in stats :
           InStatsWindow(s.month, now)
             => 2 * s.median_price
                  = TwiceRankMedian({r \in txns : GroupOf(r) = GroupOf(s)})

\* The price change of a median against the prior month's, in hundredths
\* of a percent.
PriceChangePct(median, prior) == ((median - prior) * 10000) \div prior

\* C8: right after the statistics are recomputed, price_change_pct of every
\* recomputed group is the relative change of its median against the row of
\* the prior month, and null exactly when there is no such row or its
\* median is zero.
C8_PriceChangePct ==
  \A p \in procs :
    JustRecomputed(p)
      => \A s \in stats :
           InStatsWindow(s.month, now)
             => LET prior == {q \in stats : /\ q.town = s.town
                                            /\ q.flat_type = s.flat_type
                                            /\ q.month = s.month - 1}
                IN IF prior = {} \/ \E q \in prior : q.median_price = 0
                   THEN s.price_change_pct = NULL
                   ELSE \E q \in prior :
                          /\ s.price_change_pct # NULL
                          /\ s.price_change_pct
                               = PriceChangePct(s.median_price, q.median_price)

\* C9: the watermark a sync invocation chooses is max(month) of the stored
\* transactions when any is stored, and six months before now only when
\* none is.
C9_WatermarkIsMaxMonth ==
  [][\A p \in procs :
       (inv[p].pc = "watermark" /\ inv'[p].pc = "fetch")
         => inv'[p].filterDate = IF txns = {} THEN now - LookbackMonths
                                 ELSE MaxMonth(txns)]_vars

\* C10: the watermark the next sync invocation would choose never moves
\* backwards, whatever step is taken.
C10_WatermarkMonotone ==
  [][FilterDate(MaxMonth(txns'), now') >= FilterDate(MaxMonth(txns), now)]_vars

\* C10 witness: a sync invocation after which the watermark is later than
\* the one it started from.
C10_Witness ==
  \E p \in procs :
    /\ SyncDone(p) /\ inv[p].filterDate # NULL
    /\ inv[p].insertedCount > 0
    /\ FilterDate(MaxMonth(txns), now) > inv[p].filterDate

\* C11: the sync status becomes 'running' only by the first write of an
\* invocation, and becomes 'completed' or 'failed' only from 'running'.
C11_StatusLifecycle ==
  [][/\ (sync'.status = "running" /\ sync'.status # sync.status)
          => \E p \in procs : inv[p].pc = "running"
     /\ (sync'.status \in {"completed", "failed"} /\ sync'.status # sync.status)
          => sync.status = "running"]_vars

\* The enrichment phase of a sync invocation did not run to its end.
EnrichmentSkipped(p) == inv[p].skip # NoText

\* C12: a sync invocation whose fetching was cut short by a 429 or by the
\* page cap, or whose enrichment phase was skipped, does not answer with
\* the success response.
C12_PartialNotReportedAsSuccess ==
  \A p \in procs :
    (SyncDone(p) /\ (inv[p].hit429 > 0 \/ inv[p].capped \/ EnrichmentSkipped(p)))
      => inv[p].resp # 200

\* C13: a sync invocation in which the token fetch failed ends with sync
\* status 'failed' and an error response.
C13_TokenFailurePropagates ==
  \A p \in procs :
    (SyncDone(p) /\ inv[p].skip = "token")
      => sync.status = "failed" /\ inv[p].resp = 500

\* The provider calls of the per-unit loop.
UnitCalls == {"geocode", "transit", "amenities"}

\* C14: in an invocation whose token fetch failed no geocode, transit or
\* amenity call is made and no unit score is written, and no step of that
\* invocation changes the unit scores.
C14_TokenFailureAbandonsEnrichment ==
  [][\A p \in procs :
       inv'[p].skip = "token"
         => /\ inv'[p].called \cap UnitCalls = {}
            /\ "unit_scores" \notin inv'[p].wrote
            /\ inv'[p].pc \notin {"medians", "backlog", "units"}
            /\ scores' = scores]_vars

\* C14 witness: an invocation ended after a failed token fetch while units
\* were waiting for a score.
C14_Witness ==
  \E p \in procs :
    /\ inv[p].pc = "done" /\ inv[p].skip = "token"
    /\ StaleBacklog(txns, scores, now) # {}

\* C15: a sync invocation without the enrichment credentials, in which no
\* storage call throws, makes no provider call and writes no score, stores
\* the records it fetched, recomputes the statistics, ends with status
\* 'completed' and answers with a success.
C15_MissingCredentialsSkip ==
  \A p \in procs :
    (SyncDone(p) /\ inv[p].skip = "credentials" /\ inv[p].err # DbError)
      => /\ inv[p].called \subseteq {"hdb"}
         /\ "unit_scores" \notin inv[p].wrote
         /\ "price_statistics" \in inv[p].wrote
         /\ inv[p].fetched > 0 => "hdb_transactions" \in inv[p].wrote
         /\ sync.status = "completed"
         /\ sync.records_processed = inv[p].insertedCount
         /\ inv[p].resp = 200

\* C15 witness: a sync without credentials that inserted records and
\* completed.
C15_Witness ==
  \E p \in procs :
    /\ SyncDone(p) /\ inv[p].skip = "credentials"
    /\ inv[p].insertedCount > 0 /\ inv[p].resp = 200
    /\ stats # {} /\ scores = {}

\* C16: a unit score row that is less than thirty days old is left as it
\* is by every step.
C16_FreshScoreUntouched ==
  [][\A s \in scores : ~Stale(s, now) => s \in scores']_vars

\* The score row of the unit of a transaction: same block, street, town
\* and flat type.
OwnScores(t) == {s \in scores : ScoreKey(s) = ScoreKey(t)}

\* The representatives whose own score row is missing, without a score, or
\* older than thirty days.
Eligible ==
  {t \in Representatives(txns) :
     \/ OwnScores(t) = {}
     \/ \E s \in OwnScores(t) : s.total_score = NULL \/ Stale(s, now)}

\* C17: the backlog query of the sync and of the chunked enrichment selects
\* only eligible representatives, and as many of them as the cap allows.
C17_BacklogIsEligibleUnits ==
  [][\A p \in procs :
       (/\ inv[p].pc = "backlog" /\ inv'[p].pc # "backlog"
        /\ inv[p].kind \in {"cron", "enrich"}
        /\ events' = events)
         => LET chosen == {e[1] : e \in inv'[p].backlog}
            IN /\ chosen \subseteq Eligible
               /\ Cardinality(chosen)
                    = Min(BacklogLimit(inv[p].kind), Cardinality(Eligible))]_vars

\* C18: a step of the per-unit loop makes no geocode call for an address
\* whose coordinates an earlier geocode has already stored.
C18_GeocodeCached ==
  [][\A p \in procs :
       \A e \in inv[p].backlog \ inv'[p].backlog :
         inv[p].pc = "units"
           => ~\E u \in txns : /\ u.block = e[1].block
                               /\ u.street_name = e[1].street_name
                               /\ u.latitude # NULL]_vars

\* C19: once the provider has answered 429 in the per-unit loop of an
\* invocation, that invocation processes no further unit and writes no
\* further score.
C19_ProviderRateLimitSoftStop ==
  [][\A p \in procs :
       inv[p].limited
         => /\ inv'[p].backlog = inv[p].backlog
            /\ scores' = scores]_vars

\* C20: no step removes a transaction row; a step changes of a stored row
\* at most the coordinates, and only to the coordinates of the row's
\* address when that address has a unit score.
C20_TransactionsImmutable ==
  [][/\ Cardinality(txns') >= Cardinality(txns)
     /\ \A t \in txns :
          \/ t \in txns'
          \/ /\ [t EXCEPT !.latitude = Coord(t.block)] \in txns'
             /\ \E s \in scores' : /\ s.block = t.block
                                   /\ s.street_name = t.street_name
                                   /\ s.total_score # NULL]_vars

\* C20 witness: a stored transaction with backfilled coordinates beside one
\* of another address without.
C20_Witness ==
  \E t \in txns, u \in txns :
    /\ t.latitude # NULL
    /\ u.latitude = NULL
    /\ u.block # t.block

\* The engine has returned the breakdown of unitData.
Scored == breakdown # NoBreakdown

SubScores ==
  {breakdown.price_score, breakdown.location_score, breakdown.lease_score,
   breakdown.appreciation_score, breakdown.amenities_score}

\* C25: every sub-score the engine returns lies in 0..100 and so does the
\* composite (0..1000 in tenths), for every unit input without a negative
\* number.
C25_ScoresWithinBounds ==
  Scored => /\ \A v \in SubScores : v \in 0..100
            /\ breakdown.total_score \in 0..1000

\* The weighted sum of the returned sub-scores, in hundredths.
WeightedSum ==
  30 * breakdown.price_score + 25 * breakdown.location_score
  + 20 * breakdown.lease_score + 15 * breakdown.appreciation_score
  + 10 * breakdown.amenities_score

\* C26: the composite is the sum of the returned sub-scores weighted .30,
\* .25, .20, .15 and .10, rounded to a nearest number of one decimal (not
\* a number when a sub-score is not a number), and the weights sum to 1.
C26_CompositeIsWeightedSum ==
  /\ DEFAULT_WEIGHTS.price + DEFAULT_WEIGHTS.location + DEFAULT_WEIGHTS.lease
       + DEFAULT_WEIGHTS.appreciation + DEFAULT_WEIGHTS.amenities = 100
  /\ Scored =>
       IF NaN \in SubScores THEN breakdown.total_score = NaN
       ELSE /\ 10 * breakdown.total_score - 5 <= WeightedSum
            /\ WeightedSum <= 10 * breakdown.total_score + 5

\* C26 witness: a breakdown whose five sub-scores all differ and none is 0.
C26_Witness ==
  /\ Scored
  /\ Cardinality(SubScores) = 5
  /\ \A v \in SubScores : v > 0

C28_ShortHistoryNeutral ==
  (Scored /\ Len(unitData.price_history) < 4)
    => breakdown.appreciation_score = 50

\* C28 witness: a rising history of three points scored 50.
C28_Witness ==
  /\ Scored
  /\ Len(unitData.price_history) = 3
  /\ unitData.price_history[1] < unitData.price_history[3]
  /\ breakdown.appreciation_score = 50

\* The natural keys a sync invocation has added to the store.
StoredBy(p) == {t \in txns : Key(t) \notin inv[p].keys0}

\* C23: when a sync invocation has returned success, every (town, flat
\* type, month) group with a transaction stored by that invocation has a
\* statistics row whose transaction_count is the number of stored
\* transactions of the group.
C23_StatisticsCoverStored ==
  \A p \in procs :
    (SyncDone(p) /\ inv[p].resp = 200)
      => \A t \in StoredBy(p) :
           \E s \in stats :
             /\ GroupOf(s) = GroupOf(t)
             /\ s.transaction_count
                  = Cardinality({u \in txns : GroupOf(u) = GroupOf(t)})

\* C24: in the step that handles a failed chunk of the batch insert, the
\* records of the earlier chunks are stored and stay stored, no further
\* record is inserted, the response is an error and the sync status
\* becomes 'failed'.
C24_ChunkFailureKeepsEarlierChunks ==
  [][\A p \in procs :
       (inv[p].pc = "catch" /\ inv[p].at = "insert")
         => /\ \A j \in 1..inv[p].i :
                 Key(TxnRow(inv[p].allRecords[j])) \in Keys(txns')
            /\ txns' = txns
            /\ inv'[p].pc = "done" /\ inv'[p].resp = 500
            /\ sync'.status = "failed"]_vars

\* C29: a sync invocation never has issued more than maxPages page
\* requests, and every step of its fetch loop issues one request and either
\* leaves the loop or leaves it with fewer than maxPages requests issued: the
\* loop is left after at most maxPages iterations.
C29_FetchLoopTerminates ==
  /\ [](\A p \in procs : inv[p].pages <= maxPages)
  /\ [][\A p \in procs :
          (inv[p].pc = "fetch" /\ inv'[p] # inv[p])
            => /\ inv'[p].pages = inv[p].pages + 1
               /\ inv'[p].pc = "fetch" => inv'[p].pages < maxPages]_vars

\* C29 witness: an invocation stopped by the page cap after maxPages full
\* pages.
C29_Witness ==
  \E p \in procs :
    /\ inv[p].kind = "cron" /\ inv[p].capped
    /\ inv[p].stop = "cap" /\ inv[p].pages = maxPages

\* The batch insert of a sync invocation is over and none of its chunks
\* failed.
Inserted(p) ==
  /\ inv[p].kind = "cron"
  /\ inv[p].pc \in {"stats", "token", "medians", "backlog", "units",
                     "complete", "catch", "done"}
  /\ inv[p].at \notin {"running", "watermark", "fetch", "insert"}
  /\ ~inv[p].unauth /\ inv[p].filterDate # NULL

\* C30: when the fetch loop of a sync invocation was left at a page shorter
\* than the page size (an empty one too) or at a page whose newest record
\* is older than the watermark, and the batch insert went through, every
\* upstream record at or after the watermark has its natural key stored.
C30_CompleteFetchStoresAll ==
  \A p \in procs :
    (Inserted(p) /\ inv[p].stop \in {"short", "empty", "older"})
      => \A id \in inv[p].snap :
           Feed[id].month >= inv[p].filterDate
             => Key(TxnRow(id)) \in Keys(txns)

\* C30 witness: an invocation whose loop ended at a page older than the
\* watermark, after a full page of records that it stored.
C30_Witness ==
  \E p \in procs :
    /\ Inserted(p) /\ inv[p].stop = "older"
    /\ inv[p].pages >= 2 /\ inv[p].insertedCount >= limit

\* C22: a request that is answered while the cache holds data stored for
\* its parameters less than an hour ago is answered 'cache' with that data
\* and recomputes nothing; a request that finds no such data, after the hour
\* has passed, is answered 'fresh' with the data computed from the store,
\* and stores it.
C22_CachedWithinTheHour ==
  [][(reply' # reply /\ reply'.status = 200 /\ reply'.failed = NoText)
       => LET recent == {e \in cache : /\ e.key = reply'.key
                                       /\ clock - e.put_at < 60 * 60}
          IN /\ recent # {}
                  => /\ reply'.source = "cache"
                     /\ \A e \in recent : reply'.data = e.value
                     /\ cache' = cache
             /\ recent = {}
                  => /\ reply'.source = "fresh"
                     /\ \E town \in Towns, flatType \in FlatTypes,
                           range \in Ranges \cup {"1Y"}, storey \in Storeys :
                          /\ reply'.key = ComparisonCacheKey(town, flatType,
                                            range, storey, NoText, NoText, NoText)
                          /\ reply'.data = ComparisonData(txns, town, flatType,
                                                          range, storey, now)
                     /\ \E e \in cache' : /\ e.key = reply'.key
                                          /\ e.value = reply'.data
                                          /\ e.put_at = clock]_vars

\* C22 witness: a request answered from the cache half an hour after the
\* data was stored, although the store has changed and a fresh answer would
\* differ.
C22_Witness ==
  /\ reply.status = 200 /\ reply.source = "cache"
  /\ \E e \in cache : /\ e.key = reply.key /\ e.value = reply.data
                      /\ e.put_at < reply.cached_at
  /\ reply.data # ComparisonData(txns, reply.data.town, reply.data.flat_type,
                                 reply.data.range, NoText, now)
  /\ reply.key = ComparisonCacheKey(reply.data.town, reply.data.flat_type,
                                    reply.data.range, NoText, NoText, NoText, NoText)

\* The records a fetch loop that meets no failure collects from offset on.
RECURSIVE SingleFetch(_, _, _, _)
SingleFetch(S, filterDate, offset, acc) ==
  LET records == Page(S, offset)
      got == acc \o Relevant(records, filterDate)
      offset2 == offset + limit
  IN IF \/ Len(records) = 0
        \/ Feed[records[1]].month < filterDate
        \/ Len(records) < limit
        \/ Len(got) = 0 /\ offset2 > emptyStopPages * limit
        \/ CapReached(offset2)
        \/ offset2 >= safetyPagesOffset * limit
     THEN got
     ELSE SingleFetch(S, filterDate, offset2, got)

\* The store after one invocation that meets no failure has run alone.
SingleStore(rows, S, n) ==
  BatchInsert(rows, SingleFetch(S, FilterDate(MaxMonth(rows), n), 0, <<>>)).rows

\* A sync invocation has returned success and none of its calls failed.
Succeeded(p) ==
  /\ SyncDone(p) /\ inv[p].resp = 200
  /\ inv[p].hit429 = 0 /\ ~inv[p].unsuccessful /\ inv[p].err = NoText

\* The rows that were stored before the first of the invocations started.
StoredBefore == {r \in txns : \A p \in procs : Key(r) \in inv[p].keys0}

\* C21: once two overlapping invocations have both returned success, the
\* stored transactions and the statistics rows are those a single
\* invocation leaves.
C21_OverlapSameAsSingle ==
  (\A p \in procs : Succeeded(p))
    => /\ txns = SingleStore(StoredBefore, upstream, now)
       /\ stats = updateStatistics(updateStatistics({}, StoredBefore, now),
                                   SingleStore(StoredBefore, upstream, now), now)

\* C21 witness: both invocations started before anything was stored, the
\* second read its watermark after the first had stored records, and both
\* have returned success.
C21_Witness ==
  /\ \A p \in procs : Succeeded(p)
  /\ \E p, q \in procs :
       /\ inv[p].keys0 = inv[q].keys0
       /\ inv[p].filterDate < inv[q].filterDate
       /\ inv[q].insertedCount = 0
       /\ inv[p].insertedCount > batchSize

\* The unit_scores rows a step writes.
Written == scores' \ scores

\* The stored representatives a unit_scores row can have been computed from.
UnitsOf(s) ==
  {t \in Representatives(txns) : /\ t.block = s.block /\ t.street_name = s.street_name
                                 /\ t.town = s.town /\ t.flat_type = s.flat_type}

\* C37: every unit_scores row has appreciation sub-score 50, and so has the
\* score of every stored transaction the pipeline can pick as a unit.
C37_AppreciationAlwaysNeutral ==
  /\ \A s \in scores : s.appreciation_score = 50
  /\ \A t \in txns :
       \A mrt \in MrtAnswers(t.block), amenities \in AmenityAnswers(t.block) :
         \A score \in calculateTotalScore(UnitData(t, {}, mrt, amenities)) :
           score.appreciation_score = 50

\* C37 witness: a row is stored for a unit that has sales in two months.
C37_Witness ==
  \E s \in scores : \E t, u \in txns :
    /\ t.block = s.block /\ u.block = s.block
    /\ t.street_name = s.street_name /\ u.street_name = s.street_name
    /\ t.month # u.month
    /\ s.appreciation_score = 50

\* The lease years of a stored transaction that is scored as 95 years.
NoLease(t) == t.remaining_lease_years = NULL \/ t.remaining_lease_years = 0

\* C38: a row written for a unit whose lease years are null or 0 has lease
\* sub-score 100, the sub-score of 90 years and more; and so has the score
\* of every stored transaction with its lease years set to null or to 0.
C38_MissingLeaseScoredAs95 ==
  /\ [][\A s \in Written :
          (UnitsOf(s) # {} /\ \A t \in UnitsOf(s) : NoLease(t))
            => /\ s.lease_score = 100
               /\ s.lease_score = calculateLeaseScore(90)]_vars
  /\ [](\A t \in txns, years \in {NULL, 0} :
          \A mrt \in MrtAnswers(t.block), amenities \in AmenityAnswers(t.block) :
            \A score \in calculateTotalScore(
                           UnitData([t EXCEPT !.remaining_lease_years = years],
                                    {}, mrt, amenities)) :
              score.lease_score = 100)

\* C38 witness: a row with lease sub-score 100 is stored for a unit whose
\* only representative has an unparseable lease string.
C38_Witness ==
  \E s \in scores :
    /\ UnitsOf(s) # {}
    /\ \A t \in UnitsOf(s) : t.remaining_lease_years = NULL
    /\ s.lease_score = 100

\* The statistics rows of the latest month of the table for the town and
\* category of a unit_scores row.
LatestFor(s) ==
  {x \in stats : x.month = MaxMonth(stats) /\ x.town = s.town
                 /\ x.flat_type = s.flat_type}

\* C39: a row written while the statistics table has no row of its latest
\* month for the unit's town and category has price sub-score 50.
C39_NoLatestMedianNeutralPrice ==
  [][\A s \in Written : LatestFor(s) = {} => s.price_score = 50]_vars

\* C39 witness: a row with price sub-score 50 is stored for a unit whose
\* town and category have a statistics row, of a month that is not the
\* latest of the table, with a median its price is far above or below.
C39_Witness ==
  \E s \in scores : \E x \in stats : \E t \in UnitsOf(s) :
    /\ LatestFor(s) = {}
    /\ x.town = s.town /\ x.flat_type = s.flat_type
    /\ calculatePriceScore(t.resale_price, x.median_price) # 50
    /\ s.price_score = 50

\* The units a step of the per-unit loop of invocation p takes off its
\* backlog.
Taken(p) == {e[1] : e \in inv[p].backlog \ inv'[p].backlog}

C34_FailedPageDiscardsFetched ==
  [][\A p \in procs :
       (inv[p].pc = "catch" /\ inv[p].at = "fetch")
         => /\ inv[p].wrote \subseteq {"sync_metadata"}
            /\ Keys(txns) = inv[p].keys0
            /\ txns' = txns /\ stats' = stats /\ scores' = scores
            /\ inv'[p].pc = "done" /\ inv'[p].resp = 500
            /\ sync'.status = "failed"]_vars

\* A sync invocation is between its 'running' write and its terminal
\* status write.
InProgress(p) ==
  /\ inv[p].kind = "cron"
  /\ "sync_metadata" \in inv[p].wrote
  /\ inv[p].pc \notin {"idle", "running", "done"}

\* C35: while a sync invocation is in progress the stored status is
\* 'running'.
C35_RunningWhileInProgress ==
  (\E p \in procs : InProgress(p)) => sync.status = "running"

\* C36: a 'completed' status has no error message and a 'failed' status has
\* one; the step that writes 'completed' writes the inserted count of the
\* invocation that takes it, and while the status stays 'completed' no
\* other step changes that count.
C36_TerminalStatusFields ==
  /\ [](sync.status = "completed" => sync.error_message = NoText)
  /\ [](sync.status = "failed" => sync.error_message # NoText)
  /\ [][sync'.status = "completed"
          => \/ sync'.records_processed = sync.records_processed
                /\ sync.status = "completed"
             \/ \E p \in procs :
                  /\ inv[p].pc = "complete" /\ inv'[p].pc = "done"
                  /\ sync'.records_processed = inv[p].insertedCount]_vars

\* C36 witness: an invocation that inserted records has returned success
\* and the stored status is 'completed' with its inserted count.
C36_Witness ==
  /\ sync.status = "completed" /\ sync.records_processed > 0
  /\ sync.error_message = NoText
  /\ \E p \in procs : SyncDone(p) /\ inv[p].resp = 200
                      /\ inv[p].insertedCount = sync.records_processed

\* Invocation p takes a step of its per-unit loop in which a call for the
\* unit fails: the geocode finds nothing, or a database write throws.
UnitFails(p) ==
  /\ inv[p].pc = "units" /\ inv'[p] # inv[p]
  /\ inv'[p].unit \in {"geocode miss", "score write failed", "backfill failed"}

\* After a step of the loop the remaining units are still to be processed,
\* or the loop is over and the invocation goes on to succeed.
LoopGoesOn(p) ==
  /\ Cardinality(Taken(p)) = 1
  /\ IF Cardinality(inv[p].backlog) > 1
     THEN /\ inv'[p].pc = "units"
          /\ inv'[p].backlog \subseteq inv[p].backlog
          /\ Cardinality(inv'[p].backlog) = Cardinality(inv[p].backlog) - 1
     ELSE \/ inv[p].kind = "cron" /\ inv'[p].pc = "complete"
          \/ inv[p].kind # "cron" /\ inv'[p].pc = "done" /\ inv'[p].resp = 200

\* The claim as stated: after any failure for a unit no score row is
\* written, no coordinates are stored, and the loop goes on.
C32_AsStated ==
  [][\A p \in procs :
       UnitFails(p) => /\ scores' = scores /\ txns' = txns
                       /\ LoopGoesOn(p)]_vars

\* C32: a geocode miss or a failed score write leaves the scores and the
\* transactions as they are; a failed coordinate update, which follows the
\* score write, leaves the unit's score row written, the rows of other units
\* and the transactions as they are; in each case the loop goes on.
C32_UnitFailureIsLocal ==
  [][\A p \in procs :
       UnitFails(p)
         => /\ txns' = txns
            /\ LoopGoesOn(p)
            /\ inv'[p].processed = inv[p].processed
            /\ inv'[p].unit # "backfill failed" => scores' = scores
            /\ \A t \in Taken(p) :
                 /\ \A s \in scores :
                      ScoreKey(s) # <<t.block, t.street_name, t.town, t.flat_type>>
                        => s \in scores'
                 /\ \A s \in Written :
                      ScoreKey(s) = <<t.block, t.street_name, t.town, t.flat_type>>
                 /\ inv'[p].unit = "backfill failed"
                      => \E s \in scores' :
                           /\ ScoreKey(s) = <<t.block, t.street_name, t.town, t.flat_type>>
                           /\ s.calculated_at = now]_vars

\* C32 witness: the first unit of a batch of two was not geocoded, the
\* second has been scored, nothing is stored for the first, and the
\* invocation has returned success.
C32_Witness ==
  \E p \in procs :
    /\ inv[p].kind # "none" /\ inv[p].pc = "done" /\ inv[p].resp = 200
    /\ inv[p].unit = "scored" /\ inv[p].limited
    /\ Cardinality(scores) = 1
    /\ \E t \in txns : /\ t.latitude = NULL
                       /\ \A s \in scores : s.block # t.block

\* The units the backlog query returns that the provider can geocode.
Geocodable ==
  {e \in StaleBacklog(txns, scores, now) : e[1].block \notin env.unknown}

\* C31, for one invocation: an invocation of the trigger that returns
\* success while a unit the provider can geocode is still in the backlog has
\* written a score row.  (An invocation that has written none leaves the
\* store as it found it, so the next one can select the same units, without
\* end.)
C31_EveryInvocationScoresAUnit ==
  \A p \in procs :
    (inv[p].kind = "enrich" /\ inv[p].pc = "done" /\ inv[p].resp = 200
       /\ Geocodable # {})
      => "unit_scores" \in inv[p].wrote
====
